---- MODULE Spec2Model ----
(***************************************************************************)
(* lvgl-msg-bus: the MessageBus registry and its two delivery modes        *)
(* (src/src/message_bus.cc).                                               *)
(*                                                                         *)
(* Every thread (a FreeRTOS task "t1" and the LVGL task "ui") owns a call   *)
(* stack of frames.  A frame is one running call of Subscribe,             *)
(* Unsubscribe or Publish, or one running subscriber callback.  A callback *)
(* is arbitrary user code: while it runs it may call back into the bus     *)
(* (a new frame on the same stack) or return.                              *)
(*                                                                         *)
(* uint32_t values (subscription ids, tick counts) are kept in a reduced   *)
(* width: ids live in 0..IdMax and ticks in 0..TickMod-1, with the same    *)
(* wrap-around arithmetic as the 32-bit originals.                         *)
(*                                                                         *)
(* Fields and variables whose comment says "ghost" are history the program *)
(* does not keep; they only let the properties refer to the past.          *)
(***************************************************************************)
EXTENDS Integers, Sequences, FiniteSets, TLC

\* ------------------------------------------------------------------ bounds
MaxOps   == 3   \* calls of Subscribe / Unsubscribe / Publish in one run
MaxClock == 2   \* ticks that elapse in one run
MaxStoreOps == 3   \* calls of the DataStore API in one run

\* The tick counter wraps at TickMod (stands for 2^32).
TickMod  == MaxClock + 1

\* Topics are uint32_t: topic_base_ + key wraps at TopicCard (stands for
\* 2^32).
TopicCard == 4

\* The largest subscription id (stands for 2^32 - 1): the counter wraps
\* within one run.
IdMax    == MaxOps - 1

\* --------------------------------------------------------------- constants
kInvalidSubscription == 0
TickRateHz           == 1000

Tasks     == {"t1"}
UiThread  == "ui"
Threads   == Tasks \cup {UiThread}
Topics    == {1, 2}
Modes     == {"Immediate", "LvglAsync"}
IntervalsMs == {0, 1, 2}
Payloads  == {<<>>, <<5>>, <<5, 6>>}   \* what a caller publishes
Garbage   == <<0, 0>>                  \* a buffer overwritten or freed
DataSizes == {1}                       \* config.max_data_size
NoLock    == <<>>

Keys        == {1, 2}                  \* DataStore keys the application uses
EntrySizes  == {2}                     \* config.max_entry_size
TopicBases  == {2}                     \* topic_base given to DataStore::Initialize
StoreValues == {<<>>, <<5>>, <<6>>, <<5, 6>>, <<5, 6, 7>>}  \* what a caller sets
GetSizes    == {0, 1, 2}               \* the size a caller passes to GetRaw

VARIABLES
    initialized_,   \* MessageBus::initialized_
    max_data_size,  \* MessageBus::config_.max_data_size
    lock,           \* holder of MessageBus::mutex_, or NoLock
    subscribers_,   \* MessageBus::subscribers_
    next_id_,       \* MessageBus::next_id_
    tick,           \* the last value read from the FreeRTOS tick counter
    stack,          \* per thread: the frames of its running calls
    asyncQueue,     \* lv_async_call's FIFO of AsyncPayload blocks
    buf,            \* per thread: the buffer it passes to Publish
    nops,           \* number of bus calls made so far (bounds the run)
    clock,          \* ghost: the ticks elapsed up to that reading, unwrapped
    issued,         \* ghost: one record per successful Subscribe
    unsubReturned,  \* ghost: subscriptions whose id an Unsubscribe call returned for
    unsubErased,    \* ghost: subscriptions an Unsubscribe call erased and returned
    wrapped,        \* ghost: next_id_ has wrapped around
    heap,           \* number of AsyncPayload blocks malloc'ed and not yet freed
    ret,            \* what the step just taken returned to its caller: the value
                    \* of a function that has one, Void from a call refused at
                    \* its entry check; NoRet after every other step
    store_initialized_,  \* DataStore::initialized_
    max_entry_size, \* DataStore::config_.max_entry_size
    topic_base_,    \* DataStore::topic_base_
    store_lock,     \* holder of DataStore::mutex_, or NoLock
    entries_,       \* DataStore::entries_: key -> stored bytes, <<>> when absent
    out,            \* per thread: the buffer it passes to Get
    sops            \* number of store calls made so far (bounds the run)

storeVars == <<store_initialized_, max_entry_size, topic_base_, store_lock,
               entries_, out, sops>>

vars == <<initialized_, max_data_size, lock, subscribers_, next_id_, tick,
          stack, asyncQueue, buf, nops, clock, issued, unsubReturned,
          unsubErased, wrapped, heap, ret, storeVars>>

\* ----------------------------------------------------------------- helpers
Range(s) == {s[i] : i \in DOMAIN s}

Top(t) == stack[t][Len(stack[t])]

Push(t, f) == [stack EXCEPT ![t] = Append(@, f)]

Pop(t) == [stack EXCEPT ![t] = SubSeq(@, 1, Len(@) - 1)]

ReplaceTop(t, f) == [stack EXCEPT ![t] = [@ EXCEPT ![Len(@)] = f]]

\* A thread may start a bus call from its own code (empty stack) or from
\* inside a callback.
CanCall(t) ==
    /\ nops < MaxOps
    /\ \/ stack[t] = <<>>
       \/ /\ stack[t] # <<>>
          /\ Top(t).op = "cb"

InFrame(t, op, pc) ==
    /\ stack[t] # <<>>
    /\ Top(t).op = op
    /\ Top(t).pc = pc

\* pdMS_TO_TICKS(ms)
PdMsToTicks(ms) == (ms * TickRateHz) \div 1000

\* uint32_t subtraction now - last
TickDiff(now, last) == (now - last) % TickMod

\* Faulty variant of NextIdSkipZero: the wrap-around guard is missing.
NextIdNoSkip(n) == (n + 1) % (IdMax + 1)

\* next_id_ after "id = next_id_++" and the wrap-around guard
NextIdSkipZero(n) ==
    IF (n + 1) % (IdMax + 1) = kInvalidSubscription THEN 1
    ELSE (n + 1) % (IdMax + 1)

\* Faulty variant of Truncate: the size is passed on as it came.
NoTruncate(size, max) == size

\* stands for "no DataStore key": the call or subscription is the
\* application's own
NoKey == -1

\* the step just taken did not return from a call of the API
NoRet == [op |-> "none"]

\* The step just taken returned val from a call of op with arguments arg.
\* arg is a tuple of integers and val an integer: an id, an esp_err_t, a
\* bool as 0 or 1, and Void for a function that returns nothing.
Returned(op, arg, val) == [op |-> op, arg |-> arg, val |-> val]

Void == 0

\* a C++ bool as an integer; a pointer or std::function tested for non-null
BoolInt(b) == IF b THEN 1 ELSE 0

\* esp_err_t values
ESP_OK                == 0
ESP_ERR_NO_MEM        == 257
ESP_ERR_INVALID_STATE == 259

\* size after the truncation to config_.max_data_size
Truncate(size, max) == IF size > max THEN max ELSE size

\* memcpy(payload->DataPtr(), data, size)
CopyBytes(data, size) == SubSeq(data, 1, size)

\* The DataStore singleton before DataStore::Initialize: no entries, no mutex
\* holder; config_.max_entry_size and topic_base_ are read only once
\* initialized_ is true, after Initialize has overwritten them.
StoreNotConstructed ==
    /\ store_initialized_ = FALSE
    /\ max_entry_size = 1
    /\ topic_base_ = 0
    /\ store_lock = NoLock
    /\ entries_ = <<>>
    /\ out = [t \in Threads |-> Garbage]
    /\ sops = 0

\* config_.max_data_size is read only once initialized_ is true, after
\* Initialize has overwritten it; its default (512) is never observed.
Init ==
    /\ initialized_ = FALSE
    /\ max_data_size = 1
    /\ lock = NoLock
    /\ subscribers_ = <<>>
    /\ next_id_ = 1
    /\ tick = 0
    /\ stack = [t \in Threads |-> <<>>]
    /\ asyncQueue = <<>>
    /\ buf = [t \in Threads |-> Garbage]
    /\ nops = 0
    /\ clock = 0
    /\ issued = <<>>
    /\ unsubReturned = {}
    /\ unsubErased = {}
    /\ wrapped = FALSE
    /\ heap = 0
    /\ ret = NoRet
    /\ StoreNotConstructed

\* ------------------------------------------------------------------ time
\* The tick counter is only looked at when it is read: dt ticks have gone by
\* since the reading before this one.
TimePasses(dt) ==
    /\ clock + dt <= MaxClock
    /\ clock' = clock + dt
    /\ tick' = (tick + dt) % TickMod

\* ------------------------------------------------------------ Initialize
\* Faulty variant of InitializeStatus: the check of initialized_ is missing.
InitializeAgain(mutexOk) ==
    IF mutexOk THEN ESP_OK ELSE ESP_ERR_NO_MEM

\* the esp_err_t that Initialize returns
InitializeStatus(mutexOk) ==
    IF initialized_ THEN ESP_ERR_INVALID_STATE
    ELSE IF mutexOk THEN ESP_OK ELSE ESP_ERR_NO_MEM

\* config_ is assigned before the mutex is created.
Initialize(t, maxData, mutexOk) ==
    /\ t \in Tasks
    /\ stack[t] = <<>>
    /\ IF InitializeStatus(mutexOk) = ESP_ERR_INVALID_STATE
          THEN UNCHANGED <<initialized_, max_data_size>>
          ELSE /\ max_data_size' = maxData
               /\ initialized_' = (InitializeStatus(mutexOk) = ESP_OK)
    /\ ret' = Returned("Initialize", <<maxData>>, InitializeStatus(mutexOk))
    /\ UNCHANGED storeVars
    /\ UNCHANGED <<lock, subscribers_, next_id_, tick, stack, asyncQueue, buf,
                   nops, clock, issued, unsubReturned, unsubErased, wrapped,
                   heap>>

\* ------------------------------------------------------------- the mutex
\* xSemaphoreTake(mutex_, pdMS_TO_TICKS(1000)) == pdTRUE
TakeMutex(t, op) ==
    /\ InFrame(t, op, "take")
    /\ lock = NoLock
    /\ lock' = <<t, Len(stack[t])>>
    /\ stack' = ReplaceTop(t, [Top(t) EXCEPT !.pc = "locked"])

\* xSemaphoreTake(...) != pdTRUE: the mutex stayed taken for the whole wait
MutexTimesOut(t, op) ==
    /\ InFrame(t, op, "take")
    /\ lock # NoLock

\* ------------------------------------------------------------- Subscribe
\* Faulty variant of SubscribeEarly: the entry check is missing.
SubscribeNeverEarly(cbOk) == <<>>

\* What Subscribe returns before it touches the mutex, if it returns there:
\* if (!initialized_ || !cb) return kInvalidSubscription;
SubscribeEarly(cbOk) ==
    IF ~initialized_ \/ ~cbOk THEN <<kInvalidSubscription>> ELSE <<>>

\* Faulty variant of SubscribeTimeoutResult: the id the call would have given.
SubscribeTimeoutGivesId == next_id_

\* what Subscribe returns when the wait for the mutex times out
SubscribeTimeoutResult == kInvalidSubscription

SubscribeCall(t, topic, cbOk, mode, ms) ==
    /\ CanCall(t)
    /\ IF SubscribeEarly(cbOk) # <<>>
          THEN UNCHANGED <<stack, nops>>
          ELSE /\ stack' = Push(t, [op |-> "sub", pc |-> "take", topic |-> topic,
                                     mode |-> mode, ms |-> ms, cb |-> cbOk,
                                     key |-> NoKey])
               /\ nops' = nops + 1
    /\ UNCHANGED <<initialized_, max_data_size, lock, subscribers_, next_id_,
                   tick, asyncQueue, buf, clock, issued, unsubReturned,
                   unsubErased, wrapped,
                   heap>>
    /\ ret' = IF SubscribeEarly(cbOk) # <<>>
                THEN Returned("Subscribe", <<topic, BoolInt(cbOk)>>,
                              SubscribeEarly(cbOk)[1])
                ELSE NoRet
    /\ UNCHANGED storeVars

SubscribeTake(t) ==
    /\ TakeMutex(t, "sub")
    /\ UNCHANGED <<initialized_, max_data_size, subscribers_, next_id_, tick,
                   asyncQueue, buf, nops, clock, issued, unsubReturned,
                   unsubErased, wrapped,
                   heap>>
    /\ ret' = NoRet
    /\ UNCHANGED storeVars

SubscribeTimeout(t) ==
    /\ MutexTimesOut(t, "sub")
    /\ stack' = Pop(t)
    /\ UNCHANGED <<initialized_, max_data_size, lock, subscribers_, next_id_,
                   tick, asyncQueue, buf, nops, clock, issued, unsubReturned,
                   unsubErased, wrapped,
                   heap>>
    /\ ret' = Returned("Subscribe", <<Top(t).topic, BoolInt(Top(t).cb)>>,
                       SubscribeTimeoutResult)
    /\ UNCHANGED storeVars

SubscribeLocked(t) ==
    /\ InFrame(t, "sub", "locked")
    /\ LET f  == Top(t)
           id == next_id_
           interval_ticks == IF f.ms > 0 THEN PdMsToTicks(f.ms) ELSE 0
           serial == Len(issued) + 1
       IN /\ next_id_' = NextIdSkipZero(next_id_)
          /\ subscribers_' = Append(subscribers_,
                 [id |-> id, topic |-> f.topic, callback |-> serial,
                  mode |-> f.mode, min_interval_ticks |-> interval_ticks,
                  last_delivery_tick |-> 0])
          /\ issued' = Append(issued,
                 [id |-> id, topic |-> f.topic, mode |-> f.mode, cb |-> f.cb,
                  key |-> f.key, ival |-> interval_ticks, pre |-> ~wrapped,
                  clk |-> IF interval_ticks > 0 THEN clock ELSE 0,
                  lastSel |-> -1, lastFired |-> -1, stamps |-> {},
                  fired |-> 0])
          /\ wrapped' = (wrapped \/ next_id_' <= id)
    /\ lock' = NoLock
    /\ stack' = Pop(t)
    /\ UNCHANGED <<initialized_, max_data_size, tick, asyncQueue, buf, nops,
                   clock, unsubReturned, unsubErased,
                   heap>>
    /\ ret' = Returned("Subscribe", <<Top(t).topic, BoolInt(Top(t).cb)>>,
                       next_id_)
    /\ UNCHANGED storeVars

\* ----------------------------------------------------------- Unsubscribe
\* Unsubscribe returns before it touches the mutex:
\* if (id == kInvalidSubscription || !initialized_) return;
UnsubscribeEarly(id) == id = kInvalidSubscription \/ ~initialized_

UnsubscribeCall(t, id) ==
    /\ CanCall(t)
    /\ IF UnsubscribeEarly(id)
          THEN UNCHANGED <<stack, nops>>
          ELSE /\ stack' = Push(t, [op |-> "unsub", pc |-> "take", id |-> id,
                        targets |-> {s \in DOMAIN issued : issued[s].id = id}])
               /\ nops' = nops + 1
    /\ UNCHANGED <<initialized_, max_data_size, lock, subscribers_, next_id_,
                   tick, asyncQueue, buf, clock, issued, unsubReturned,
                   unsubErased, wrapped,
                   heap>>
    /\ ret' = IF UnsubscribeEarly(id) THEN Returned("Unsubscribe", <<id>>, Void)
                ELSE NoRet
    /\ UNCHANGED storeVars

UnsubscribeTake(t) ==
    /\ TakeMutex(t, "unsub")
    /\ UNCHANGED <<initialized_, max_data_size, subscribers_, next_id_, tick,
                   asyncQueue, buf, nops, clock, issued, unsubReturned,
                   unsubErased, wrapped,
                   heap>>
    /\ ret' = NoRet
    /\ UNCHANGED storeVars

UnsubscribeTimeout(t) ==
    /\ MutexTimesOut(t, "unsub")
    /\ unsubReturned' = unsubReturned \cup Top(t).targets
    /\ stack' = Pop(t)
    /\ UNCHANGED <<initialized_, max_data_size, lock, subscribers_, next_id_,
                   tick, asyncQueue, buf, nops, clock, issued, unsubErased,
                   wrapped,
                   heap>>
    /\ ret' = NoRet
    /\ UNCHANGED storeVars

\* index of the first entry with this id, 0 when there is none
FirstWithId(subs, id) ==
    IF \E i \in DOMAIN subs : subs[i].id = id
      THEN CHOOSE i \in DOMAIN subs :
               /\ subs[i].id = id
               /\ \A j \in 1..(i - 1) : subs[j].id # id
      ELSE 0

\* subscribers_.erase(it)
EraseAt(subs, i) ==
    IF i = 0 THEN subs
    ELSE SubSeq(subs, 1, i - 1) \o SubSeq(subs, i + 1, Len(subs))

UnsubscribeLocked(t) ==
    /\ InFrame(t, "unsub", "locked")
    /\ LET f == Top(t)
           i == FirstWithId(subscribers_, f.id)
       IN /\ subscribers_' = EraseAt(subscribers_, i)
          /\ unsubErased' = IF i = 0 THEN unsubErased
                            ELSE unsubErased \cup {subscribers_[i].callback}
          /\ unsubReturned' = unsubReturned \cup f.targets
    /\ lock' = NoLock
    /\ stack' = Pop(t)
    /\ UNCHANGED <<initialized_, max_data_size, next_id_, tick, asyncQueue,
                   buf, nops, clock, issued, wrapped,
                   heap>>
    /\ ret' = NoRet
    /\ UNCHANGED storeVars

\* --------------------------------------------------------------- Publish
NullPtr == "null"

\* The bytes a pointer passed to Publish points at, read at this moment.
Deref(data) == IF data = NullPtr THEN <<>> ELSE buf[data]

\* Faulty variant of TopicMatches: the topic comparison is missing.
AnyTopic(sub, topic) == TRUE

\* sub.topic == topic
TopicMatches(sub, topic) == sub.topic = topic

\* Faulty variant of Throttled: elapsed <= min_interval_ticks.
ThrottledOffByOne(sub, now) ==
    /\ sub.min_interval_ticks > 0
    /\ TickDiff(now, sub.last_delivery_tick) <= sub.min_interval_ticks

\* the per-subscriber throttle: elapsed < min_interval_ticks
Throttled(sub, now) ==
    /\ sub.min_interval_ticks > 0
    /\ TickDiff(now, sub.last_delivery_tick) < sub.min_interval_ticks

Selected(sub, topic, now) == TopicMatches(sub, topic) /\ ~Throttled(sub, now)

\* sub.last_delivery_tick = now
Stamp(sub, now) == [sub EXCEPT !.last_delivery_tick = now]

\* subscribers_ after the scan
ScanRegistry(subs, topic, now) ==
    [i \in DOMAIN subs |->
        IF Selected(subs[i], topic, now) THEN Stamp(subs[i], now) ELSE subs[i]]

\* Faulty variant of ScanMatches: the snapshot is filled back to front.
ScanMatchesReversed(subs, topic, now) ==
    LET m == SelectSeq(ScanRegistry(subs, topic, now),
                       LAMBDA e : \E i \in DOMAIN subs :
                                     /\ subs[i].callback = e.callback
                                     /\ Selected(subs[i], topic, now))
    IN [i \in 1..Len(m) |-> m[Len(m) + 1 - i]]

\* matches after the scan: copies of the selected entries, in registry order
ScanMatches(subs, topic, now) ==
    SelectSeq(ScanRegistry(subs, topic, now),
              LAMBDA e : \E i \in DOMAIN subs :
                            /\ subs[i].callback = e.callback
                            /\ Selected(subs[i], topic, now))

\* Faulty variant of GiveAfterScan: the mutex is kept across the deliveries.
KeepLock(holder) == holder

\* xSemaphoreGive(mutex_) after the scan
GiveAfterScan(holder) == NoLock

\* Faulty variant of IsImmediate: every delivery goes through lv_async_call.
NeverImmediate(sub) == FALSE

\* sub.mode == DeliveryMode::Immediate
IsImmediate(sub) == sub.mode = "Immediate"

PubRunning(t) == \E d \in DOMAIN stack[t] : stack[t][d].op = "pub"

\* The key that the wrapper made by DataStore::Watch has captured and hands
\* to the watcher; NoKey for a callback the application gave to Subscribe.
CapturedKey(callback) == issued[callback].key

\* Publish past its entry check: the size is truncated, the tick counter is
\* read, and the call goes on to take the mutex.  The new frame replaces what
\* thread t has above its lowest `depth` frames.  key: the DataStore key the
\* call notifies about, NoKey for a call of the application.
PublishEnter(t, depth, topic, payload, dt, key) ==
    LET data == IF payload = <<>> THEN NullPtr ELSE t
        size == Truncate(Len(payload), max_data_size)
        f == [op |-> "pub", pc |-> "take", topic |-> topic,
              data |-> data, size |-> size, now |-> tick',
              matches |-> <<>>, idx |-> 0,
              \* ghost fields
              nowAbs |-> clock', pdata |-> payload,
              after |-> unsubReturned,
              overlap |-> \E u \in Threads : PubRunning(u),
              scanned |-> {}, consF |-> {}, dueF |-> {},
              consS |-> {}, dueS |-> {}, got |-> {},
              dropped |-> {}, nomem |-> {}, done |-> {}, key |-> key,
              alone |-> IF key = NoKey THEN TRUE ELSE Top(t).alone,
              watchers |-> IF key = NoKey THEN {}
                           ELSE {e.callback : e \in
                                   {x \in Range(subscribers_) :
                                       issued[x.callback].key = key}}]
        \* ghost: the calls already running now overlap with this one
        marked == [u \in Threads |->
                     [d \in DOMAIN stack[u] |->
                         IF stack[u][d].op = "pub"
                           THEN [stack[u][d] EXCEPT !.overlap = TRUE]
                           ELSE stack[u][d]]]
    IN /\ TimePasses(dt)
       /\ stack' = [marked EXCEPT ![t] = Append(SubSeq(@, 1, depth), f)]
       /\ buf' = IF payload = <<>> THEN buf
                 ELSE [buf EXCEPT ![t] = payload]

\* The caller fills its buffer with the payload and passes a pointer to it and
\* its length (no payload: nullptr and 0).  A callback passes no payload.
PublishCall(t, topic, payload, dt) ==
    /\ CanCall(t)
    /\ stack[t] # <<>> => payload = <<>>
    /\ IF ~initialized_
          THEN /\ dt = 0
               /\ UNCHANGED <<stack, nops, buf, tick, clock>>
          ELSE /\ PublishEnter(t, Len(stack[t]), topic, payload, dt, NoKey)
               /\ nops' = nops + 1
    /\ UNCHANGED <<initialized_, max_data_size, lock, subscribers_, next_id_,
                   asyncQueue, issued, unsubReturned, unsubErased, wrapped,
                   heap>>
    /\ ret' = IF ~initialized_ THEN Returned("Publish", <<topic>>, Void) ELSE NoRet
    /\ UNCHANGED storeVars

PublishTake(t) ==
    /\ TakeMutex(t, "pub")
    /\ UNCHANGED <<initialized_, max_data_size, subscribers_, next_id_, tick,
                   asyncQueue, buf, nops, clock, issued, unsubReturned,
                   unsubErased, wrapped,
                   heap>>
    /\ ret' = NoRet
    /\ UNCHANGED storeVars

PublishTimeout(t) ==
    /\ MutexTimesOut(t, "pub")
    /\ stack' = Pop(t)
    /\ UNCHANGED <<initialized_, max_data_size, lock, subscribers_, next_id_,
                   tick, asyncQueue, buf, nops, clock, issued, unsubReturned,
                   unsubErased, wrapped,
                   heap>>
    /\ ret' = NoRet
    /\ UNCHANGED storeVars

\* The scan under the lock (lines 150-166).
PublishLocked(t) ==
    /\ InFrame(t, "pub", "locked")
    /\ LET f == Top(t)
           matches == ScanMatches(subscribers_, f.topic, f.now)
           sel     == {m.callback : m \in Range(matches)}
           \* ghost: what the history says about the entries on this topic
           scanned == {e.callback : e \in {x \in Range(subscribers_) :
                                              x.topic = f.topic}}
           consF == {s \in scanned : issued[s].lastFired # -1}
           consS == {s \in scanned : issued[s].lastSel # -1}
       IN /\ subscribers_' = ScanRegistry(subscribers_, f.topic, f.now)
          /\ stack' = ReplaceTop(t,
                [f EXCEPT !.pc = "deliver", !.matches = matches, !.idx = 1,
                          !.scanned = scanned, !.consF = consF, !.consS = consS,
                          !.dueF = {s \in consF :
                              TickDiff(f.now, issued[s].lastFired) >= issued[s].ival},
                          !.dueS = {s \in consS :
                              TickDiff(f.now, issued[s].lastSel) >= issued[s].ival}])
          /\ issued' = [s \in DOMAIN issued |->
                          IF s \in sel
                            THEN [issued[s] EXCEPT !.lastSel =
                                     IF issued[s].ival > 0 THEN f.now ELSE 0]
                            ELSE issued[s]]
    /\ lock' = GiveAfterScan(lock)
    /\ UNCHANGED <<initialized_, max_data_size, next_id_, tick, asyncQueue, buf,
                   nops, clock, unsubReturned, unsubErased, wrapped,
                   heap>>
    /\ ret' = NoRet
    /\ UNCHANGED storeVars

\* ghost: one more delivery (invocation or scheduling) to subscription s
NoteDelivery(f, s) ==
    IF issued[s].ival > 0
      THEN [issued EXCEPT ![s] = [@ EXCEPT !.lastFired = f.now,
                                          !.stamps = @ \cup {f.nowAbs},
                                          !.fired = @ + 1]]
      ELSE [issued EXCEPT ![s] = [@ EXCEPT !.lastFired = 0]]

\* Faulty variant of LoopOver: the loop walks the registry itself.
LoopOverRegistry(matches, subs) == subs

\* for (const auto& sub : matches): the delivery loop walks the snapshot made
\* under the lock, never subscribers_
LoopOver(matches, subs) == matches

\* Immediate delivery: Message msg{topic, data, size, now}; sub.callback(msg)
PublishDeliverImmediate(t) ==
    /\ InFrame(t, "pub", "deliver")
    /\ Top(t).idx <= Len(LoopOver(Top(t).matches, subscribers_))
    /\ LET f   == Top(t)
           sub == LoopOver(f.matches, subscribers_)[f.idx]
           cb  == [op |-> "cb", pc |-> "run", sub |-> sub.callback,
                   mode |-> sub.mode, inline |-> TRUE,
                   msg |-> [topic |-> f.topic, data |-> f.data,
                            data_size |-> f.size, timestamp |-> f.now],
                   \* ghost fields
                   pidx |-> f.idx, pdata |-> f.pdata, src |-> t,
                   late |-> sub.callback \in unsubErased,
                   key |-> CapturedKey(sub.callback)]
       IN /\ IsImmediate(sub)
          /\ stack' = [stack EXCEPT ![t] =
                Append([@ EXCEPT ![Len(@)] =
                          [f EXCEPT !.idx = f.idx + 1,
                                    !.got = @ \cup {sub.callback}]], cb)]
          /\ issued' = NoteDelivery(f, sub.callback)
    /\ UNCHANGED <<initialized_, max_data_size, lock, subscribers_, next_id_,
                   tick, asyncQueue, buf, nops, clock, unsubReturned,
                   unsubErased, wrapped,
                   heap>>
    /\ ret' = NoRet
    /\ UNCHANGED storeVars

\* Faulty variant of AfterDrop: a failed allocation ends the delivery loop.
AbortLoop(f) == Len(f.matches) + 1

\* "continue" after a failed malloc: the loop goes on with the next match
AfterDrop(f) == f.idx + 1

\* Deferred delivery: malloc, copy, lv_async_call(LvglAsyncCb, payload).
\* allocOk: malloc returned a block.  callOk: lv_async_call queued the call;
\* Publish does not look at what lv_async_call returns.
PublishDeliverAsync(t, allocOk, callOk) ==
    /\ InFrame(t, "pub", "deliver")
    /\ Top(t).idx <= Len(LoopOver(Top(t).matches, subscribers_))
    /\ LET f   == Top(t)
           sub == LoopOver(f.matches, subscribers_)[f.idx]
           payload == [callback |-> sub.callback, topic |-> f.topic,
                       timestamp |-> f.now, data_size |-> f.size,
                       bytes |-> IF f.size > 0 /\ f.data # NullPtr
                                   THEN CopyBytes(Deref(f.data), f.size)
                                   ELSE <<>>,
                       \* ghost fields
                       mode |-> sub.mode, pdata |-> f.pdata, src |-> t]
       IN /\ ~IsImmediate(sub)
          /\ ~allocOk => callOk
          /\ IF allocOk /\ callOk
               THEN /\ asyncQueue' = Append(asyncQueue, payload)
                    /\ stack' = ReplaceTop(t,
                          [f EXCEPT !.idx = f.idx + 1,
                                    !.got = @ \cup {sub.callback}])
                    /\ issued' = NoteDelivery(f, sub.callback)
               ELSE /\ stack' = ReplaceTop(t,
                          [f EXCEPT !.idx = IF allocOk THEN f.idx + 1
                                            ELSE AfterDrop(f),
                                    !.dropped = @ \cup {sub.callback},
                                    !.nomem = IF allocOk THEN @
                                              ELSE @ \cup {sub.callback}])
                    /\ UNCHANGED <<asyncQueue, issued>>
          /\ heap' = IF allocOk THEN heap + 1 ELSE heap
    /\ UNCHANGED <<initialized_, max_data_size, lock, subscribers_, next_id_,
                   tick, buf, nops, clock, unsubReturned, unsubErased, wrapped>>
    /\ ret' = NoRet
    /\ UNCHANGED storeVars

\* matches.empty(), or the delivery loop has ended
PublishReturn(t) ==
    /\ InFrame(t, "pub", "deliver")
    /\ Top(t).idx > Len(LoopOver(Top(t).matches, subscribers_))
    /\ stack' = Pop(t)
    /\ UNCHANGED <<initialized_, max_data_size, lock, subscribers_, next_id_,
                   tick, asyncQueue, buf, nops, clock, issued, unsubReturned,
                   unsubErased, wrapped,
                   heap>>
    /\ ret' = NoRet
    /\ UNCHANGED storeVars

\* ------------------------------------------------------------- callbacks
\* Faulty variant of DataPtr: the block keeps the caller's pointer, which is
\* read when the callback runs.
DataPtrOfCaller(payload) == CopyBytes(Deref(payload.src), payload.data_size)

\* payload->DataPtr(): the bytes that trail the AsyncPayload header
DataPtr(payload) == payload.bytes

\* LvglAsyncCb, up to the call of payload->callback(msg); the LVGL task runs
\* the scheduled calls one at a time, oldest first.
LvglAsyncCb ==
    /\ stack[UiThread] = <<>>
    /\ asyncQueue # <<>>
    /\ LET payload == Head(asyncQueue)
           msg == [topic |-> payload.topic,
                   data |-> IF payload.data_size > 0 THEN DataPtr(payload)
                            ELSE NullPtr,
                   data_size |-> payload.data_size,
                   timestamp |-> payload.timestamp]
       IN stack' = Push(UiThread,
             [op |-> "cb", pc |-> "run", sub |-> payload.callback,
              mode |-> payload.mode, inline |-> FALSE, msg |-> msg,
              pidx |-> 0, pdata |-> payload.pdata, src |-> payload.src,
              late |-> payload.callback \in unsubErased,
              key |-> CapturedKey(payload.callback)])
    /\ asyncQueue' = Tail(asyncQueue)
    /\ UNCHANGED <<initialized_, max_data_size, lock, subscribers_, next_id_,
                   tick, buf, nops, clock, issued, unsubReturned, unsubErased,
                   wrapped,
                   heap>>
    /\ ret' = NoRet
    /\ UNCHANGED storeVars

\* The subscriber's callback returns: to the delivery loop of Publish, or to
\* LvglAsyncCb, which destroys the std::function and frees the block.
CallbackReturn(t) ==
    /\ InFrame(t, "cb", "run")
    /\ LET cb == Top(t)
           n  == Len(stack[t])
       IN /\ stack' = [stack EXCEPT ![t] =
             IF cb.inline
               THEN SubSeq([@ EXCEPT ![n - 1] =
                              [@ EXCEPT !.done = @ \cup {cb.pidx}]], 1, n - 1)
               ELSE SubSeq(@, 1, n - 1)]
          /\ heap' = IF cb.inline THEN heap ELSE heap - 1
    /\ UNCHANGED <<initialized_, max_data_size, lock, subscribers_, next_id_,
                   tick, asyncQueue, buf, nops, clock, issued, unsubReturned,
                   unsubErased, wrapped>>
    /\ ret' = NoRet
    /\ UNCHANGED storeVars

\* ----------------------------------------------------------- environment
\* A publisher overwrites (or frees) its buffer once none of its Publish
\* calls is running.
MutateBuf(t) ==
    /\ ~PubRunning(t)
    /\ buf[t] # Garbage
    /\ buf' = [buf EXCEPT ![t] = Garbage]
    /\ UNCHANGED <<initialized_, max_data_size, lock, subscribers_, next_id_,
                   tick, stack, asyncQueue, nops, clock, issued, unsubReturned,
                   unsubErased, wrapped,
                   heap>>
    /\ ret' = NoRet
    /\ UNCHANGED storeVars

\* ------------------------------------------------------------- DataStore
\* what the bus and the environment keep and no DataStore step changes
registryVars == <<initialized_, max_data_size, lock, subscribers_, next_id_,
                  asyncQueue, nops, issued, unsubReturned, unsubErased,
                  wrapped, heap>>

\* A thread may start a store call from its own code.
CanCallStore(t) ==
    /\ sops < MaxStoreOps
    /\ stack[t] = <<>>

\* the esp_err_t that DataStore::Initialize returns
StoreInitializeStatus(mutexOk) ==
    IF store_initialized_ THEN ESP_ERR_INVALID_STATE
    ELSE IF mutexOk THEN ESP_OK ELSE ESP_ERR_NO_MEM

\* config_ and topic_base_ are assigned before the mutex is created.
StoreInitialize(t, maxEntry, topicBase, mutexOk) ==
    /\ t \in Tasks
    /\ stack[t] = <<>>
    /\ IF StoreInitializeStatus(mutexOk) = ESP_ERR_INVALID_STATE
          THEN UNCHANGED <<store_initialized_, max_entry_size, topic_base_>>
          ELSE /\ max_entry_size' = maxEntry
               /\ topic_base_' = topicBase
               /\ store_initialized_' = (StoreInitializeStatus(mutexOk) = ESP_OK)
    /\ ret' = Returned("DataStore::Initialize", <<maxEntry, topicBase>>,
                       StoreInitializeStatus(mutexOk))
    /\ UNCHANGED <<store_lock, entries_, out, sops, stack, buf, tick, clock>>
    /\ UNCHANGED registryVars

\* xSemaphoreTake(mutex_, pdMS_TO_TICKS(1000)) == pdTRUE, on DataStore::mutex_
TakeStoreMutex(t, op) ==
    /\ InFrame(t, op, "take")
    /\ store_lock = NoLock
    /\ store_lock' = <<t, Len(stack[t])>>
    /\ stack' = ReplaceTop(t, [Top(t) EXCEPT !.pc = "locked"])

\* xSemaphoreTake(...) != pdTRUE on DataStore::mutex_
StoreMutexTimesOut(t, op) ==
    /\ InFrame(t, op, "take")
    /\ store_lock # NoLock

\* Faulty variant of StoreTopic: the key itself is the topic.
KeyAsTopic(key) == key % TopicCard

\* Faulty variant of StoreTopic: the sum stops at the largest topic instead
\* of wrapping around.
SaturatedTopic(key) ==
    IF topic_base_ + key >= TopicCard THEN TopicCard - 1 ELSE topic_base_ + key

\* topic_base_ + key, in uint32_t
StoreTopic(key) == (topic_base_ + key) % TopicCard

\* entries_.find(key) != entries_.end()
HasEntry(key) == key \in DOMAIN entries_

\* ---------------------------------------------------------------- SetRaw
\* Faulty variant of SetRejects: the check against max_entry_size is missing.
SetRejectsNoCeiling(data, size) ==
    ~store_initialized_ \/ data = NullPtr \/ size = 0

\* SetRaw returns before it touches the mutex:
\* if (!initialized_ || !data || size == 0) return;
\* if (size > config_.max_entry_size) return;
SetRejects(data, size) ==
    \/ ~store_initialized_ \/ data = NullPtr \/ size = 0
    \/ size > max_entry_size

\* Faulty variant of Differs: only the lengths are compared.
DiffersInSize(existing, bytes, size) == Len(existing) # size

\* existing.size() != size || memcmp(existing.data(), data, size) != 0
Differs(existing, bytes, size) ==
    \/ Len(existing) # size
    \/ SubSeq(existing, 1, size) # SubSeq(bytes, 1, size)

\* the frame is part of a Set call on this key: SetRaw itself, or the Publish
\* call it ends with
SetInFlight(f, key) == f.op \in {"set", "pub"} /\ f.key = key

\* The caller fills its buffer with the value and passes a pointer to it and
\* its length; ptrOk: the pointer it passes is not null.
SetCall(t, key, value, ptrOk) ==
    /\ CanCallStore(t)
    /\ LET data == IF ptrOk THEN t ELSE NullPtr
           size == Len(value)
           \* ghost: the Set calls on this key that are running now overlap
           \* with this one
           marked == [u \in Threads |->
                        [d \in DOMAIN stack[u] |->
                            IF SetInFlight(stack[u][d], key)
                              THEN [stack[u][d] EXCEPT !.alone = FALSE]
                              ELSE stack[u][d]]]
       IN IF SetRejects(data, size)
            THEN /\ UNCHANGED <<stack, buf>>
                 /\ ret' = Returned("Set", <<key, BoolInt(ptrOk), size>>, Void)
            ELSE /\ stack' = [marked EXCEPT ![t] = Append(@,
                                 [op |-> "set", pc |-> "take", key |-> key,
                                  data |-> data, size |-> size,
                                  \* ghost field
                                  alone |-> \A u \in Threads :
                                      \A d \in DOMAIN stack[u] :
                                          ~SetInFlight(stack[u][d], key)])]
                 /\ buf' = [buf EXCEPT ![t] = value]
                 /\ ret' = NoRet
    /\ sops' = sops + 1
    /\ UNCHANGED <<store_initialized_, max_entry_size, topic_base_, store_lock,
                   entries_, out, tick, clock>>
    /\ UNCHANGED registryVars

SetTake(t) ==
    /\ TakeStoreMutex(t, "set")
    /\ ret' = NoRet
    /\ UNCHANGED <<store_initialized_, max_entry_size, topic_base_, entries_,
                   out, sops, buf, tick, clock>>
    /\ UNCHANGED registryVars

SetTimeout(t) ==
    /\ StoreMutexTimesOut(t, "set")
    /\ stack' = Pop(t)
    /\ ret' = NoRet
    /\ UNCHANGED <<store_initialized_, max_entry_size, topic_base_, store_lock,
                   entries_, out, sops, buf, tick, clock>>
    /\ UNCHANGED registryVars

\* Faulty variant of AssignValue: an existing entry keeps its bytes.
KeepExisting(existing, bytes) == existing

\* existing.assign(data, data + size)
AssignValue(existing, bytes) == bytes

\* Faulty variant of GiveBeforePublish: the store mutex is kept across the
\* Publish call.
KeepStoreLock(holder) == holder

\* xSemaphoreGive(mutex_) before the change is published
GiveBeforePublish(holder) == NoLock

\* Under the lock: insert, or compare and assign; then the lock is given back
\* and, if the value changed, Publish(topic_base_ + key, data, size) is
\* called, whose entry (lines 130-140 of message_bus.cc) is part of this step.
SetLocked(t, dt) ==
    /\ InFrame(t, "set", "locked")
    /\ LET f == Top(t)
           bytes == CopyBytes(Deref(f.data), f.size)
           changed == IF HasEntry(f.key)
                        THEN Differs(entries_[f.key], Deref(f.data), f.size)
                        ELSE TRUE
       IN /\ entries_' = IF changed
                           THEN [k \in DOMAIN entries_ \cup {f.key} |->
                                    IF k # f.key THEN entries_[k]
                                    ELSE IF HasEntry(f.key)
                                      THEN AssignValue(entries_[k], bytes)
                                      ELSE bytes]
                           ELSE entries_
          /\ IF changed /\ initialized_
               THEN /\ PublishEnter(t, Len(stack[t]) - 1, StoreTopic(f.key),
                                    bytes, dt, f.key)
                    /\ ret' = NoRet
               ELSE /\ dt = 0
                    /\ stack' = Pop(t)
                    /\ ret' = IF changed
                                THEN Returned("Publish", <<StoreTopic(f.key)>>,
                                              Void)
                                ELSE NoRet
                    /\ UNCHANGED <<buf, tick, clock>>
    /\ store_lock' = GiveBeforePublish(store_lock)
    /\ UNCHANGED <<store_initialized_, max_entry_size, topic_base_, out, sops>>
    /\ UNCHANGED registryVars

\* ---------------------------------------------------------------- GetRaw
\* GetRaw returns false before it touches the mutex:
\* if (!initialized_ || !out || size == 0) return false;
GetRejects(outOk, size) == ~store_initialized_ \/ ~outOk \/ size = 0

\* Faulty variant of Fits: a stored value longer than size fits too.
FitsAtLeast(key, size) == HasEntry(key) /\ Len(entries_[key]) >= size

\* it != entries_.end() && it->second.data.size() == size
Fits(key, size) == HasEntry(key) /\ Len(entries_[key]) = size

\* A thread may call GetRaw from its own code or from inside a callback.
GetCall(t, key, size, outOk) ==
    /\ sops < MaxStoreOps
    /\ \/ stack[t] = <<>>
       \/ /\ stack[t] # <<>>
          /\ Top(t).op = "cb"
    /\ IF GetRejects(outOk, size)
         THEN /\ UNCHANGED stack
              /\ ret' = Returned("Get", <<key, BoolInt(outOk), size>>,
                                 BoolInt(FALSE))
         ELSE /\ stack' = Push(t, [op |-> "get", pc |-> "take", key |-> key,
                                   size |-> size])
              /\ ret' = NoRet
    /\ sops' = sops + 1
    /\ UNCHANGED <<store_initialized_, max_entry_size, topic_base_, store_lock,
                   entries_, out, buf, tick, clock>>
    /\ UNCHANGED registryVars

GetTake(t) ==
    /\ TakeStoreMutex(t, "get")
    /\ ret' = NoRet
    /\ UNCHANGED <<store_initialized_, max_entry_size, topic_base_, entries_,
                   out, sops, buf, tick, clock>>
    /\ UNCHANGED registryVars

GetTimeout(t) ==
    /\ StoreMutexTimesOut(t, "get")
    /\ stack' = Pop(t)
    /\ ret' = Returned("Get", <<Top(t).key, BoolInt(TRUE), Top(t).size>>,
                       BoolInt(FALSE))
    /\ UNCHANGED <<store_initialized_, max_entry_size, topic_base_, store_lock,
                   entries_, out, sops, buf, tick, clock>>
    /\ UNCHANGED registryVars

\* memcpy(out, it->second.data.data(), size) when the entry fits
GetLocked(t) ==
    /\ InFrame(t, "get", "locked")
    /\ LET f == Top(t)
       IN /\ out' = IF Fits(f.key, f.size)
                      THEN [out EXCEPT ![t] = CopyBytes(entries_[f.key], f.size)]
                      ELSE out
          /\ ret' = Returned("Get", <<f.key, BoolInt(TRUE), f.size>>,
                             BoolInt(Fits(f.key, f.size)))
    /\ store_lock' = NoLock
    /\ stack' = Pop(t)
    /\ UNCHANGED <<store_initialized_, max_entry_size, topic_base_, entries_,
                   sops, buf, tick, clock>>
    /\ UNCHANGED registryVars

\* ----------------------------------------------------------------- Remove
RemoveCall(t, key) ==
    /\ CanCallStore(t)
    /\ IF ~store_initialized_
         THEN /\ UNCHANGED stack
              /\ ret' = Returned("Remove", <<key>>, Void)
         ELSE /\ stack' = Push(t, [op |-> "remove", pc |-> "take",
                                   key |-> key])
              /\ ret' = NoRet
    /\ sops' = sops + 1
    /\ UNCHANGED <<store_initialized_, max_entry_size, topic_base_, store_lock,
                   entries_, out, buf, tick, clock>>
    /\ UNCHANGED registryVars

RemoveTake(t) ==
    /\ TakeStoreMutex(t, "remove")
    /\ ret' = NoRet
    /\ UNCHANGED <<store_initialized_, max_entry_size, topic_base_, entries_,
                   out, sops, buf, tick, clock>>
    /\ UNCHANGED registryVars

RemoveTimeout(t) ==
    /\ StoreMutexTimesOut(t, "remove")
    /\ stack' = Pop(t)
    /\ ret' = NoRet
    /\ UNCHANGED <<store_initialized_, max_entry_size, topic_base_, store_lock,
                   entries_, out, sops, buf, tick, clock>>
    /\ UNCHANGED registryVars

\* Faulty variant of EraseKey: the entry stays.
EraseNothing(entries, key) == entries

\* entries_.erase(key)
EraseKey(entries, key) == [k \in DOMAIN entries \ {key} |-> entries[k]]

RemoveLocked(t) ==
    /\ InFrame(t, "remove", "locked")
    /\ entries_' = EraseKey(entries_, Top(t).key)
    /\ store_lock' = NoLock
    /\ stack' = Pop(t)
    /\ ret' = NoRet
    /\ UNCHANGED <<store_initialized_, max_entry_size, topic_base_, out, sops,
                   buf, tick, clock>>
    /\ UNCHANGED registryVars

\* --------------------------------------------------------------- Contains
\* Contains returns false before it touches the mutex: if (!initialized_)
ContainsCall(t, key) ==
    /\ CanCallStore(t)
    /\ IF ~store_initialized_
         THEN /\ UNCHANGED stack
              /\ ret' = Returned("Contains", <<key>>, BoolInt(FALSE))
         ELSE /\ stack' = Push(t, [op |-> "contains", pc |-> "take",
                                   key |-> key])
              /\ ret' = NoRet
    /\ sops' = sops + 1
    /\ UNCHANGED <<store_initialized_, max_entry_size, topic_base_, store_lock,
                   entries_, out, buf, tick, clock>>
    /\ UNCHANGED registryVars

ContainsTake(t) ==
    /\ TakeStoreMutex(t, "contains")
    /\ ret' = NoRet
    /\ UNCHANGED <<store_initialized_, max_entry_size, topic_base_, entries_,
                   out, sops, buf, tick, clock>>
    /\ UNCHANGED registryVars

ContainsTimeout(t) ==
    /\ StoreMutexTimesOut(t, "contains")
    /\ stack' = Pop(t)
    /\ ret' = Returned("Contains", <<Top(t).key>>, BoolInt(FALSE))
    /\ UNCHANGED <<store_initialized_, max_entry_size, topic_base_, store_lock,
                   entries_, out, sops, buf, tick, clock>>
    /\ UNCHANGED registryVars

\* entries_.count(key) > 0
ContainsLocked(t) ==
    /\ InFrame(t, "contains", "locked")
    /\ ret' = Returned("Contains", <<Top(t).key>>, BoolInt(HasEntry(Top(t).key)))
    /\ store_lock' = NoLock
    /\ stack' = Pop(t)
    /\ UNCHANGED <<store_initialized_, max_entry_size, topic_base_, entries_,
                   out, sops, buf, tick, clock>>
    /\ UNCHANGED registryVars

\* --------------------------------------------------------- Watch / Unwatch
\* Watch returns before it calls the bus:
\* if (!initialized_ || !callback) return kInvalidSubscription;
WatchRejects(cbOk) == ~store_initialized_ \/ ~cbOk

\* Watch hands a wrapper of the callback to Subscribe(topic, wrapper,
\* LvglAsync) and returns what Subscribe returns; the entry check of
\* Subscribe is part of this step.  The wrapper is never empty.
WatchCall(t, key, cbOk) ==
    /\ CanCallStore(t)
    /\ IF WatchRejects(cbOk) \/ SubscribeEarly(TRUE) # <<>>
         THEN /\ UNCHANGED stack
              /\ ret' = Returned("Watch", <<key, BoolInt(cbOk)>>,
                                 kInvalidSubscription)
         ELSE /\ stack' = Push(t, [op |-> "sub", pc |-> "take",
                                   topic |-> StoreTopic(key),
                                   mode |-> "LvglAsync", ms |-> 0,
                                   cb |-> TRUE, key |-> key])
              /\ ret' = NoRet
    /\ sops' = sops + 1
    /\ UNCHANGED <<store_initialized_, max_entry_size, topic_base_, store_lock,
                   entries_, out, buf, tick, clock>>
    /\ UNCHANGED registryVars

\* Unwatch(id) is MessageBus::Unsubscribe(id).
UnwatchCall(t, id) ==
    /\ CanCallStore(t)
    /\ IF UnsubscribeEarly(id)
         THEN /\ UNCHANGED stack
              /\ ret' = Returned("Unsubscribe", <<id>>, Void)
         ELSE /\ stack' = Push(t, [op |-> "unsub", pc |-> "take", id |-> id,
                        targets |-> {s \in DOMAIN issued : issued[s].id = id}])
              /\ ret' = NoRet
    /\ sops' = sops + 1
    /\ UNCHANGED <<store_initialized_, max_entry_size, topic_base_, store_lock,
                   entries_, out, buf, tick, clock>>
    /\ UNCHANGED registryVars

\* The DataStore API and what it sets off in the bus.  Watchers are not
\* throttled, so the tick counter plays no part and stays where it is.
NextStore ==
    \/ \E t \in Tasks, m \in DataSizes, ok \in BOOLEAN : Initialize(t, m, ok)
    \/ \E t \in Tasks, m \in EntrySizes, b \in TopicBases, ok \in BOOLEAN :
          StoreInitialize(t, m, b, ok)
    \/ \E t \in Threads, k \in Keys, v \in StoreValues, ptrOk \in BOOLEAN :
          SetCall(t, k, v, ptrOk)
    \/ \E t \in Threads : SetTake(t)
    \/ \E t \in Threads : SetTimeout(t)
    \/ \E t \in Threads : SetLocked(t, 0)
    \/ \E t \in Threads, k \in Keys, n \in GetSizes, outOk \in BOOLEAN :
          GetCall(t, k, n, outOk)
    \/ \E t \in Threads : GetTake(t)
    \/ \E t \in Threads : GetTimeout(t)
    \/ \E t \in Threads : GetLocked(t)
    \/ \E t \in Threads, k \in Keys : RemoveCall(t, k)
    \/ \E t \in Threads : RemoveTake(t)
    \/ \E t \in Threads : RemoveTimeout(t)
    \/ \E t \in Threads : RemoveLocked(t)
    \/ \E t \in Threads, k \in Keys : ContainsCall(t, k)
    \/ \E t \in Threads : ContainsTake(t)
    \/ \E t \in Threads : ContainsTimeout(t)
    \/ \E t \in Threads : ContainsLocked(t)
    \/ \E t \in Threads, k \in Keys, cbOk \in BOOLEAN : WatchCall(t, k, cbOk)
    \/ \E t \in Threads, id \in 0..IdMax : UnwatchCall(t, id)
    \/ \E t \in Threads : SubscribeTake(t)
    \/ \E t \in Threads : SubscribeTimeout(t)
    \/ \E t \in Threads : SubscribeLocked(t)
    \/ \E t \in Threads : UnsubscribeTake(t)
    \/ \E t \in Threads : UnsubscribeTimeout(t)
    \/ \E t \in Threads : UnsubscribeLocked(t)
    \/ \E t \in Threads : PublishTake(t)
    \/ \E t \in Threads : PublishTimeout(t)
    \/ \E t \in Threads : PublishLocked(t)
    \/ \E t \in Threads, allocOk \in BOOLEAN, callOk \in BOOLEAN :
          PublishDeliverAsync(t, allocOk, callOk)
    \/ \E t \in Threads : PublishReturn(t)
    \/ LvglAsyncCb
    \/ \E t \in Threads : CallbackReturn(t)

SpecStore == Init /\ [][NextStore]_vars

\* Both singletons initialized, and Watch(1, cb) has returned id 1.
InitWatched ==
    /\ initialized_ = TRUE
    /\ max_data_size = 1
    /\ lock = NoLock
    /\ subscribers_ = <<[id |-> 1, topic |-> 3, callback |-> 1,
                         mode |-> "LvglAsync", min_interval_ticks |-> 0,
                         last_delivery_tick |-> 0]>>
    /\ next_id_ = NextIdSkipZero(1)
    /\ tick = 0
    /\ stack = [t \in Threads |-> <<>>]
    /\ asyncQueue = <<>>
    /\ buf = [t \in Threads |-> Garbage]
    /\ nops = 0
    /\ clock = 0
    /\ issued = <<[id |-> 1, topic |-> 3, mode |-> "LvglAsync", cb |-> TRUE,
                   key |-> 1, ival |-> 0, pre |-> TRUE, clk |-> 0,
                   lastSel |-> -1, lastFired |-> -1, stamps |-> {},
                   fired |-> 0]>>
    /\ unsubReturned = {}
    /\ unsubErased = {}
    /\ wrapped = FALSE
    /\ heap = 0
    /\ ret = NoRet
    /\ store_initialized_ = TRUE
    /\ max_entry_size = 2
    /\ topic_base_ = 2
    /\ store_lock = NoLock
    /\ entries_ = <<>>
    /\ out = [t \in Threads |-> Garbage]
    /\ sops = 0

\* The use the store is made for: task t1 sets values and registers
\* watchers, the LVGL task runs the queued watchers, reads the store and
\* unwatches.
NextWatcher ==
    \/ \E t \in Tasks, k \in Keys, v \in StoreValues, ptrOk \in BOOLEAN :
          SetCall(t, k, v, ptrOk)
    \/ \E t \in Tasks : SetTake(t)
    \/ \E t \in Tasks : SetTimeout(t)
    \/ \E t \in Tasks : SetLocked(t, 0)
    \/ \E k \in Keys, n \in GetSizes, outOk \in BOOLEAN :
          GetCall(UiThread, k, n, outOk)
    \/ GetTake(UiThread)
    \/ GetTimeout(UiThread)
    \/ GetLocked(UiThread)
    \/ \E t \in Tasks, k \in Keys, cbOk \in BOOLEAN : WatchCall(t, k, cbOk)
    \/ \E id \in 0..IdMax : UnwatchCall(UiThread, id)
    \/ \E t \in Tasks : SubscribeTake(t)
    \/ \E t \in Tasks : SubscribeTimeout(t)
    \/ \E t \in Tasks : SubscribeLocked(t)
    \/ UnsubscribeTake(UiThread)
    \/ UnsubscribeTimeout(UiThread)
    \/ UnsubscribeLocked(UiThread)
    \/ \E t \in Tasks : PublishTake(t)
    \/ \E t \in Tasks : PublishTimeout(t)
    \/ \E t \in Tasks : PublishLocked(t)
    \/ \E t \in Tasks, allocOk \in BOOLEAN, callOk \in BOOLEAN :
          PublishDeliverAsync(t, allocOk, callOk)
    \/ \E t \in Tasks : PublishReturn(t)
    \/ LvglAsyncCb
    \/ CallbackReturn(UiThread)

\* What the LVGL task does once it is scheduled: it goes on with the call it
\* is in (a 1000 ms wait ends one way or the other), or lv_timer_handler runs
\* the next queued callback.
UiRuns ==
    \/ GetTake(UiThread)
    \/ GetTimeout(UiThread)
    \/ GetLocked(UiThread)
    \/ UnsubscribeTake(UiThread)
    \/ UnsubscribeTimeout(UiThread)
    \/ UnsubscribeLocked(UiThread)
    \/ LvglAsyncCb
    \/ CallbackReturn(UiThread)

\* The watched store with an LVGL task that keeps being scheduled.
SpecWatcher == InitWatched /\ [][NextWatcher]_vars /\ WF_vars(UiRuns)

Next ==
    \/ \E t \in Tasks, m \in DataSizes, ok \in BOOLEAN : Initialize(t, m, ok)
    \/ \E t \in Threads, topic \in Topics, cbOk \in BOOLEAN, mode \in Modes,
          ms \in IntervalsMs : SubscribeCall(t, topic, cbOk, mode, ms)
    \/ \E t \in Threads : SubscribeTake(t)
    \/ \E t \in Threads : SubscribeTimeout(t)
    \/ \E t \in Threads : SubscribeLocked(t)
    \/ \E t \in Threads, id \in 0..IdMax : UnsubscribeCall(t, id)
    \/ \E t \in Threads : UnsubscribeTake(t)
    \/ \E t \in Threads : UnsubscribeTimeout(t)
    \/ \E t \in Threads : UnsubscribeLocked(t)
    \/ \E t \in Threads, topic \in Topics, payload \in Payloads,
          dt \in 0..MaxClock : PublishCall(t, topic, payload, dt)
    \/ \E t \in Threads : PublishTake(t)
    \/ \E t \in Threads : PublishTimeout(t)
    \/ \E t \in Threads : PublishLocked(t)
    \/ \E t \in Threads : PublishDeliverImmediate(t)
    \/ \E t \in Threads, allocOk \in BOOLEAN, callOk \in BOOLEAN :
          PublishDeliverAsync(t, allocOk, callOk)
    \/ \E t \in Threads : PublishReturn(t)
    \/ LvglAsyncCb
    \/ \E t \in Threads : CallbackReturn(t)
    \/ \E t \in Threads : MutateBuf(t)

Spec == Init /\ [][Next]_vars

\* A bus that has been running for MaxClock ticks: Initialize has succeeded
\* and one Subscribe (topic 1, Immediate, unthrottled) has returned id 1.
InitSubscribed ==
    /\ initialized_ = TRUE
    /\ max_data_size = 1
    /\ lock = NoLock
    /\ subscribers_ = <<[id |-> 1, topic |-> 1, callback |-> 1,
                         mode |-> "Immediate", min_interval_ticks |-> 0,
                         last_delivery_tick |-> 0]>>
    /\ next_id_ = NextIdSkipZero(1)
    /\ tick = MaxClock % TickMod
    /\ stack = [t \in Threads |-> <<>>]
    /\ asyncQueue = <<>>
    /\ buf = [t \in Threads |-> Garbage]
    /\ nops = 0
    /\ clock = MaxClock
    /\ issued = <<[id |-> 1, topic |-> 1, mode |-> "Immediate", cb |-> TRUE,
                   key |-> NoKey,
                   ival |-> 0, pre |-> TRUE, clk |-> 0, lastSel |-> -1, lastFired |-> -1,
                   stamps |-> {}, fired |-> 0]>>
    /\ unsubReturned = {}
    /\ unsubErased = {}
    /\ wrapped = FALSE
    /\ heap = 0
    /\ ret = NoRet
    /\ StoreNotConstructed

SpecSubscribed == InitSubscribed /\ [][Next]_vars

\* An initialized bus on which Subscribe has returned twice for topic 1:
\* id 1 for an Immediate subscriber, then id 2 for an LvglAsync one.
InitOrdered ==
    /\ initialized_ = TRUE
    /\ max_data_size = 1
    /\ lock = NoLock
    /\ subscribers_ = <<[id |-> 1, topic |-> 1, callback |-> 1,
                         mode |-> "Immediate", min_interval_ticks |-> 0,
                         last_delivery_tick |-> 0],
                        [id |-> 2, topic |-> 1, callback |-> 2,
                         mode |-> "LvglAsync", min_interval_ticks |-> 0,
                         last_delivery_tick |-> 0]>>
    /\ next_id_ = NextIdSkipZero(NextIdSkipZero(1))
    /\ tick = 0
    /\ stack = [t \in Threads |-> <<>>]
    /\ asyncQueue = <<>>
    /\ buf = [t \in Threads |-> Garbage]
    /\ nops = 0
    /\ clock = 0
    /\ issued = <<[id |-> 1, topic |-> 1, mode |-> "Immediate", cb |-> TRUE,
                   key |-> NoKey, ival |-> 0, pre |-> TRUE, clk |-> 0,
                   lastSel |-> -1, lastFired |-> -1, stamps |-> {},
                   fired |-> 0],
                  [id |-> 2, topic |-> 1, mode |-> "LvglAsync", cb |-> TRUE,
                   key |-> NoKey, ival |-> 0, pre |-> TRUE, clk |-> 0,
                   lastSel |-> -1, lastFired |-> -1, stamps |-> {},
                   fired |-> 0]>>
    /\ unsubReturned = {}
    /\ unsubErased = {}
    /\ wrapped = (NextIdSkipZero(NextIdSkipZero(1)) <= 2)
    /\ heap = 0
    /\ ret = NoRet
    /\ StoreNotConstructed

\* Every thread makes its bus calls one after the other from its own code;
\* the callbacks call nothing.  All calls are about topic 1, the new
\* subscribers are not throttled and the messages carry no payload.
NextOrdered ==
    \/ \E t \in Threads, mode \in Modes :
          stack[t] = <<>> /\ SubscribeCall(t, 1, TRUE, mode, 0)
    \/ \E t \in Threads : SubscribeTake(t)
    \/ \E t \in Threads : SubscribeTimeout(t)
    \/ \E t \in Threads : SubscribeLocked(t)
    \/ \E t \in Threads, id \in 0..IdMax :
          stack[t] = <<>> /\ UnsubscribeCall(t, id)
    \/ \E t \in Threads : UnsubscribeTake(t)
    \/ \E t \in Threads : UnsubscribeTimeout(t)
    \/ \E t \in Threads : UnsubscribeLocked(t)
    \/ \E t \in Threads, dt \in 0..MaxClock :
          stack[t] = <<>> /\ PublishCall(t, 1, <<>>, dt)
    \/ \E t \in Threads : PublishTake(t)
    \/ \E t \in Threads : PublishTimeout(t)
    \/ \E t \in Threads : PublishLocked(t)
    \/ \E t \in Threads : PublishDeliverImmediate(t)
    \/ \E t \in Threads, allocOk \in BOOLEAN, callOk \in BOOLEAN :
          PublishDeliverAsync(t, allocOk, callOk)
    \/ \E t \in Threads : PublishReturn(t)
    \/ LvglAsyncCb
    \/ \E t \in Threads : CallbackReturn(t)

SpecOrdered == InitOrdered /\ [][NextOrdered]_vars

\* ============================================================== properties
\* the subscriptions a Publish frame selected
Chosen(f) == {f.matches[i].callback : i \in DOMAIN f.matches}

\* the Publish frame has gone through its whole delivery loop
LoopEnded(f) ==
    /\ f.op = "pub"
    /\ f.pc = "deliver"
    /\ f.idx > Len(f.matches)

\* C1: once Unsubscribe(id) has returned, no Publish call that starts
\* afterwards invokes or schedules the callback registered under id.
C1_NoDeliveryAfterUnsubscribe ==
    \A t \in Threads : \A d \in DOMAIN stack[t] :
        stack[t][d].op = "pub" => stack[t][d].got \cap stack[t][d].after = {}

\* C2: after Unsubscribe(id) has returned (having removed the entry), the
\* callback registered under id is never invoked again, whatever the
\* interleaving of publishers, the unsubscribing thread and the LVGL task.
C2_NoCallbackAfterUnsubscribe ==
    \A t \in Threads : \A d \in DOMAIN stack[t] :
        stack[t][d].op = "cb" => ~stack[t][d].late

\* C3: while a subscriber callback executes (inside Publish or on the LVGL
\* task) the registry mutex is not held by a frame below it on its thread, so
\* a bus call made from a callback never waits for a mutex its own thread
\* holds.
C3_CallbacksRunUnlocked ==
    \A t \in Threads : \A d \in DOMAIN stack[t] :
        /\ stack[t][d].op = "cb" =>
              \/ lock = NoLock
              \/ lock[1] # t
              \/ lock[2] > d
        /\ stack[t][d].pc = "take" =>
              \/ lock = NoLock
              \/ lock[1] # t

\* C3 happens: a call made from inside a callback holds the mutex.
C3_Witness ==
    \E t \in Threads :
        /\ Len(stack[t]) >= 2
        /\ stack[t][Len(stack[t]) - 1].op = "cb"
        /\ Top(t).pc = "locked"

\* every selected, running or scheduled delivery goes to a subscription
\* registered on the published topic
C4_DeliveredOnTopic ==
    /\ \A t \in Threads : \A d \in DOMAIN stack[t] :
          LET f == stack[t][d]
          IN /\ f.op = "pub" =>
                   /\ \A i \in DOMAIN f.matches : f.matches[i].topic = f.topic
                   /\ \A s \in f.got \cup f.dropped : issued[s].topic = f.topic
             /\ f.op = "cb" => issued[f.sub].topic = f.msg.topic
    /\ \A p \in Range(asyncQueue) : issued[p.callback].topic = p.topic

\* an entry's last_delivery_tick changes only in the scan of a Publish on the
\* entry's own topic
C4_StampOnlyOnTopic ==
    \A e \in Range(subscribers_) : \A e2 \in Range(subscribers_') :
        (e.callback = e2.callback
            /\ e.last_delivery_tick # e2.last_delivery_tick)
        => \E t \in Threads : /\ InFrame(t, "pub", "locked")
                              /\ Top(t).topic = e.topic

\* C4: Publish(topic, ...) invokes or schedules only callbacks of entries
\* registered on exactly that topic; entries on other topics are neither
\* delivered to nor have their last-delivery timestamp changed.
C4_OnlyExactTopic == []C4_DeliveredOnTopic /\ [][C4_StampOnlyOnTopic]_vars

\* C4 happens: a Publish has delivered while the registry holds an entry on
\* another topic.
C4_Witness ==
    \E t \in Threads : \E d \in DOMAIN stack[t] :
        /\ stack[t][d].op = "pub"
        /\ stack[t][d].got # {}
        /\ \E e \in Range(subscribers_) : e.topic # stack[t][d].topic

\* C5: the ids returned by successful Subscribe calls before the id counter
\* wraps are pairwise distinct, and no successful Subscribe returns 0, also
\* after the counter has wrapped.
C5_IdsUniqueNonzero ==
    \A i \in DOMAIN issued :
        /\ issued[i].id # kInvalidSubscription
        /\ \A j \in DOMAIN issued :
              (i # j /\ issued[i].pre /\ issued[j].pre)
              => issued[i].id # issued[j].id

\* C5 happens: a Subscribe has returned an id after the counter wrapped.
C5_Witness ==
    /\ wrapped
    /\ \E i \in DOMAIN issued : ~issued[i].pre

LastSelected(s) == IF issued[s].lastSel = -1 THEN 0 ELSE issued[s].lastSel

C7_DeliveriesIntervalApart ==
    \A s \in DOMAIN issued :
        issued[s].ival > 0 =>
            /\ issued[s].fired = Cardinality(issued[s].stamps)
            /\ \A a \in issued[s].stamps : \A b \in issued[s].stamps :
                  a < b => b - a >= issued[s].ival

\* C8: when the publishes on a throttled subscriber's topic all fall in one
\* window shorter than its interval after it subscribed, its callback has
\* fired exactly once when such a publish has ended its deliveries.
C8_FiresOnceInFirstWindow ==
    \A t \in Threads : \A d \in DOMAIN stack[t] :
        LoopEnded(stack[t][d]) =>
            \A s \in stack[t][d].scanned \ stack[t][d].dropped :
                (/\ issued[s].ival > 0
                 /\ issued[s].clk <= stack[t][d].nowAbs
                 /\ clock - issued[s].clk < issued[s].ival)
                => issued[s].fired = 1

\* C9: when a Publish is about to return, the callback of every Immediate
\* subscriber it matched has been invoked and has returned; an Immediate
\* callback only ever runs on the publisher's thread, directly inside the
\* Publish call that matched it, and is never handed to lv_async_call.
C9_ImmediateDoneBeforeReturn ==
    /\ \A t \in Threads :
          (stack[t] # <<>> /\ LoopEnded(Top(t))) =>
              \A i \in DOMAIN Top(t).matches :
                  Top(t).matches[i].mode = "Immediate" => i \in Top(t).done
    /\ \A t \in Threads : \A d \in DOMAIN stack[t] :
          (stack[t][d].op = "cb" /\ stack[t][d].mode = "Immediate") =>
              /\ stack[t][d].inline
              /\ d > 1
              /\ stack[t][d - 1].op = "pub"
              /\ stack[t][d - 1].matches[stack[t][d].pidx].callback
                     = stack[t][d].sub
    /\ \A p \in Range(asyncQueue) : p.mode # "Immediate"

\* C9 happens: a Publish that matched an Immediate subscriber is about to
\* return.
C9_Witness ==
    \E t \in Threads :
        /\ stack[t] # <<>>
        /\ LoopEnded(Top(t))
        /\ \E i \in Top(t).done : Top(t).matches[i].mode = "Immediate"

\* C10: the Message of a deferred callback has data_size equal to the
\* published size after truncation, and its bytes are those the publisher's
\* buffer held when Publish ran, whatever has happened to the buffer since.
C10_DeferredMessageIsPublishTimeCopy ==
    /\ \A t \in Threads : \A d \in DOMAIN stack[t] :
          LET f == stack[t][d]
          IN (f.op = "cb" /\ ~f.inline) =>
                /\ f.msg.data_size = Truncate(Len(f.pdata), max_data_size)
                /\ f.msg.data_size > 0 =>
                      f.msg.data = SubSeq(f.pdata, 1, f.msg.data_size)
    /\ \A p \in Range(asyncQueue) :
          /\ p.data_size = Truncate(Len(p.pdata), max_data_size)
          /\ p.bytes = SubSeq(p.pdata, 1, p.data_size)

\* C10 happens: a deferred callback runs with a payload after the publisher's
\* buffer has been overwritten.
C10_Witness ==
    \E d \in DOMAIN stack[UiThread] :
        /\ stack[UiThread][d].op = "cb"
        /\ ~stack[UiThread][d].inline
        /\ stack[UiThread][d].msg.data_size > 0
        /\ buf[stack[UiThread][d].src] = Garbage

\* the deferred callbacks the LVGL task is running
DeferredRunning ==
    {d \in DOMAIN stack[UiThread] :
        stack[UiThread][d].op = "cb" /\ ~stack[UiThread][d].inline}

\* C11: a deferred callback runs only on the LVGL task, outside every Publish
\* call, and every AsyncPayload block that Publish has allocated is either
\* queued for the LVGL task or being run by it, so that its callback runs once
\* and the block is freed once, after the callback has returned.
C11_DeferredRunsOnceOnUi ==
    /\ \A t \in Threads : \A d \in DOMAIN stack[t] :
          (stack[t][d].op = "cb" /\ stack[t][d].mode = "LvglAsync") =>
              /\ t = UiThread
              /\ d = 1
              /\ ~stack[t][d].inline
    /\ heap = Len(asyncQueue) + Cardinality(DeferredRunning)

\* the delivery loop handles the snapshot in order and never stops early
C16_LoopNeverAborted ==
    \A t \in Threads : \A d \in DOMAIN stack[t] :
        LET f == stack[t][d] IN
        (f.op = "pub" /\ f.pc = "deliver") =>
            /\ {f.matches[i].callback :
                    i \in {j \in DOMAIN f.matches : j < f.idx}}
                  = f.got \cup f.dropped
            /\ f.got \cap f.dropped = {}
            /\ f.nomem \subseteq f.dropped
            /\ \A s \in f.dropped : issued[s].mode = "LvglAsync"

\* C16: when the allocation of the handoff block fails for a deferred
\* subscriber of a Publish, the delivery loop goes on: it handles the snapshot
\* in order to its end, and every other subscriber of the snapshot, earlier
\* or later, Immediate or deferred, has received its delivery when the loop
\* ends, unless its own handoff failed.
C16_OnlyFailedAllocationDropped ==
    /\ C16_LoopNeverAborted
    /\ \A t \in Threads : \A d \in DOMAIN stack[t] :
          LoopEnded(stack[t][d]) =>
             Chosen(stack[t][d]) \ stack[t][d].dropped \subseteq stack[t][d].got

\* a Publish lost one delivery to a failed allocation and made another
C16_Witness ==
    \E t \in Threads : \E d \in DOMAIN stack[t] :
        /\ LoopEnded(stack[t][d])
        /\ stack[t][d].nomem # {}
        /\ stack[t][d].got # {}

\* C17: a Publish with more than max_data_size bytes is delivered, and every
\* Message made for it, running or queued, has data_size equal to
\* max_data_size and carries the first max_data_size bytes of the payload.
C17_OversizeIsTruncated ==
    /\ \A t \in Threads : \A d \in DOMAIN stack[t] :
          LET f == stack[t][d]
          IN (f.op = "cb" /\ Len(f.pdata) > max_data_size) =>
                /\ f.msg.data_size = max_data_size
                /\ (IF f.inline
                      THEN SubSeq(buf[f.msg.data], 1, f.msg.data_size)
                      ELSE f.msg.data)
                      = SubSeq(f.pdata, 1, max_data_size)
    /\ \A p \in Range(asyncQueue) :
          Len(p.pdata) > max_data_size =>
             /\ p.data_size = max_data_size
             /\ p.bytes = SubSeq(p.pdata, 1, max_data_size)

\* C17 happens: callbacks of both modes run for an oversize Publish
C17_Witness ==
    /\ \E d \in DOMAIN stack[UiThread] :
          /\ stack[UiThread][d].op = "cb"
          /\ ~stack[UiThread][d].inline
          /\ Len(stack[UiThread][d].pdata) > max_data_size
    /\ \E t \in Tasks : \E d \in DOMAIN stack[t] :
          /\ stack[t][d].op = "cb"
          /\ stack[t][d].inline
          /\ Len(stack[t][d].pdata) > max_data_size

\* no call that its entry check refuses ever gets a frame
C19_RefusedCallsHaveNoFrame ==
    \A t \in Threads : \A d \in DOMAIN stack[t] :
        /\ stack[t][d].op = "sub" => (initialized_ /\ stack[t][d].cb)
        /\ stack[t][d].op = "unsub" => stack[t][d].id # kInvalidSubscription

\* a step that returns from Subscribe on an uninitialized bus or with an empty
\* callback, or from Unsubscribe(0)
C19_RefusedStep ==
    \/ /\ ret'.op = "Subscribe"
       /\ ~initialized_ \/ ret'.arg[2] = BoolInt(FALSE)
       /\ ret'.val = kInvalidSubscription
    \/ /\ ret'.op = "Unsubscribe"
       /\ ret'.arg[1] = kInvalidSubscription

\* such a step returns 0 from Subscribe and changes nothing
C19_RefusedStepChangesNothing ==
    /\ (ret'.op = "Subscribe"
           /\ (~initialized_ \/ ret'.arg[2] = BoolInt(FALSE)))
          => ret'.val = kInvalidSubscription
    /\ C19_RefusedStep =>
          /\ subscribers_' = subscribers_
          /\ next_id_' = next_id_
          /\ stack' = stack
          /\ lock' = lock
          /\ issued' = issued

\* C19: Subscribe on an uninitialized bus or with an empty callback returns
\* the reserved id 0 and leaves the registry and the id counter as they
\* were, and so does Unsubscribe(0); none of these calls goes past its entry
\* check.
C19_RefusedCallsChangeNothing ==
    /\ []C19_RefusedCallsHaveNoFrame
    /\ [][C19_RefusedStepChangesNothing]_vars

\* C19 happens: Subscribe with an empty callback has just returned 0 on an
\* initialized bus that has subscribers
C19_Witness ==
    /\ initialized_
    /\ subscribers_ # <<>>
    /\ ret.op = "Subscribe"
    /\ ret.arg[2] = BoolInt(FALSE)
    /\ ret.val = kInvalidSubscription

\* thread t applies its Set in this step: it leaves the locked part of SetRaw
C12_Applies(t) ==
    /\ InFrame(t, "set", "locked")
    /\ ~(/\ Len(stack'[t]) = Len(stack[t])
         /\ stack'[t][Len(stack[t])].op = "set")

\* the Set that t applies finds the key absent or holding other bytes
C12_Changes(t) ==
    \/ Top(t).key \notin DOMAIN entries_
    \/ entries_[Top(t).key] # buf[t]

\* the frame of the Publish call that the Set of t has made in this step
C12_Call(t) == stack'[t][Len(stack[t])]

\* one step of thread t, as C12 wants it
C12_SetStep(t) ==
    LET k == Top(t).key
        v == buf[t]
    IN C12_Applies(t) =>
          /\ Len(v) = Top(t).size
          /\ IF C12_Changes(t)
               THEN /\ k \in DOMAIN entries_'
                    /\ entries_'[k] = v
                    /\ \A j \in DOMAIN entries_' \ {k} :
                          j \in DOMAIN entries_ /\ entries_'[j] = entries_[j]
                    /\ IF initialized_
                         THEN /\ Len(stack'[t]) = Len(stack[t])
                              /\ C12_Call(t).op = "pub"
                              /\ C12_Call(t).pc = "take"
                              /\ C12_Call(t).topic =
                                     (topic_base_ + k) % TopicCard
                              /\ C12_Call(t).pdata = v
                              /\ C12_Call(t).data = t
                              /\ C12_Call(t).size =
                                     IF Len(v) > max_data_size
                                       THEN max_data_size ELSE Len(v)
                         ELSE /\ stack'[t] = SubSeq(stack[t], 1, Len(stack[t]) - 1)
                              /\ ret' = Returned("Publish",
                                     <<(topic_base_ + k) % TopicCard>>, Void)
               ELSE /\ entries_' = entries_
                    /\ stack'[t] = SubSeq(stack[t], 1, Len(stack[t]) - 1)
                    /\ ret' = NoRet
          /\ asyncQueue' = asyncQueue
          /\ \A u \in Threads \ {t} : Len(stack'[u]) = Len(stack[u])

\* a Publish call on behalf of a key is only ever made by the step that
\* applies a changing Set of that key
C12_OnlySetNotifies ==
    \A t \in Threads :
        (/\ stack'[t] # <<>>
         /\ ~InFrame(t, "pub", "take")
         /\ stack'[t][Len(stack'[t])].op = "pub"
         /\ stack'[t][Len(stack'[t])].pc = "take"
         /\ stack'[t][Len(stack'[t])].key # NoKey)
        => (C12_Applies(t) /\ C12_Changes(t))

C14_Reads(t) ==
    /\ InFrame(t, "get", "locked")
    /\ stack'[t] # stack[t]

\* one step that returns from Get, as C14 wants it
C14_GetStep ==
    LET key  == ret'.arg[1]
        size == ret'.arg[3]
    IN ret'.op = "Get" =>
         /\ entries_' = entries_
         /\ ret'.val \in {BoolInt(FALSE), BoolInt(TRUE)}
         /\ ret'.val = BoolInt(TRUE) =>
               /\ store_initialized_
               /\ ret'.arg[2] = BoolInt(TRUE)
               /\ key \in DOMAIN entries_
               /\ Len(entries_[key]) = size
               /\ \E t \in Threads :
                     /\ C14_Reads(t)
                     /\ store_lock = <<t, Len(stack[t])>>
                     /\ out'[t] = entries_[key]
                     /\ \A u \in Threads \ {t} : out'[u] = out[u]
         /\ ret'.val = BoolInt(FALSE) =>
               /\ out' = out
               /\ \/ ~store_initialized_
                  \/ ret'.arg[2] = BoolInt(FALSE)
                  \/ size = 0
                  \/ key \notin DOMAIN entries_
                  \/ Len(entries_[key]) # size
                  \/ \E t \in Threads :
                        /\ InFrame(t, "get", "take")
                        /\ store_lock # NoLock

\* every step of a Get call returns from it or leaves out as it is, and
\* leaves the store as it is
C14_GetOnlyReads ==
    \A t \in Threads :
        (stack[t] # <<>> /\ Top(t).op = "get" /\ stack'[t] # stack[t]) =>
            /\ entries_' = entries_
            /\ ret'.op = "Get" \/ out' = out

\* C14: Get returns true and copies the stored bytes into out only if the
\* store is initialized, the lock was acquired, key exists and its stored
\* length equals size; in every other case it returns false and leaves out
\* as it was; no step of Get changes the stored entries.
C14_GetCopiesOnlyExactSize ==
    [][C14_GetStep /\ C14_GetOnlyReads]_vars

\* C14 happens: after a Get that succeeded, a Get with another size than the
\* stored length has returned false and out still holds what it held
C14_Witness ==
    /\ ret.op = "Get"
    /\ ret.val = BoolInt(FALSE)
    /\ ret.arg[1] \in DOMAIN entries_
    /\ ret.arg[3] > 0
    /\ ret.arg[2] = BoolInt(TRUE)
    /\ Len(entries_[ret.arg[1]]) # ret.arg[3]
    /\ \E t \in Threads : out[t] # Garbage

\* only a Set with a usable value gets past the entry checks, and only such
\* values are ever stored or notified
C18_OnlyValidSetsProceed ==
    /\ \A t \in Threads : \A d \in DOMAIN stack[t] :
          /\ stack[t][d].op = "set" =>
                /\ store_initialized_
                /\ stack[t][d].data # NullPtr
                /\ stack[t][d].size > 0
                /\ stack[t][d].size <= max_entry_size
          /\ (stack[t][d].op = "pub" /\ stack[t][d].key # NoKey) =>
                /\ Len(stack[t][d].pdata) > 0
                /\ Len(stack[t][d].pdata) <= max_entry_size
    /\ \A k \in DOMAIN entries_ :
          Len(entries_[k]) > 0 /\ Len(entries_[k]) <= max_entry_size

\* a step that returns from Set at its entry checks
C18_RefusedStep ==
    ret'.op = "Set" =>
        /\ \/ ~store_initialized_
           \/ ret'.arg[2] = BoolInt(FALSE)
           \/ ret'.arg[3] = 0
           \/ ret'.arg[3] > max_entry_size
        /\ entries_' = entries_
        /\ stack' = stack
        /\ asyncQueue' = asyncQueue
        /\ subscribers_' = subscribers_
        /\ store_lock' = store_lock
        /\ lock' = lock

\* C18: Set on an uninitialized Store, with a null value pointer, with size
\* 0 or with size greater than max_entry_size returns at its entry checks:
\* the stored entries stay exactly as they were and no Publish call is made.
C18_RefusedSetIsNoOp ==
    /\ []C18_OnlyValidSetsProceed
    /\ [][C18_RefusedStep]_vars

\* C18 happens: an oversize Set of a key that holds a value has just returned
C18_Witness ==
    /\ store_initialized_
    /\ ret.op = "Set"
    /\ ret.arg[2] = BoolInt(TRUE)
    /\ ret.arg[3] > max_entry_size
    /\ ret.arg[1] \in DOMAIN entries_

\* the calls whose wait for a mutex C15 is about
C15_Ops == {"pub", "sub", "unsub", "set", "remove"}

\* thread t gives up waiting for the mutex in this step: its call returns
\* from where it waited
C15_TimesOut(t) ==
    /\ stack[t] # <<>>
    /\ Top(t).pc = "take"
    /\ Top(t).op \in C15_Ops
    /\ stack'[t] = SubSeq(stack[t], 1, Len(stack[t]) - 1)

\* one step of thread t, as C15 wants it
C15_TimeoutStep(t) ==
    C15_TimesOut(t) =>
        /\ IF Top(t).op \in {"set", "remove"}
             THEN store_lock # NoLock
             ELSE lock # NoLock
        /\ subscribers_' = subscribers_
        /\ next_id_' = next_id_
        /\ entries_' = entries_
        /\ asyncQueue' = asyncQueue
        /\ heap' = heap
        /\ lock' = lock
        /\ store_lock' = store_lock
        /\ \A u \in Threads \ {t} : stack'[u] = stack[u]
        /\ Top(t).op = "sub" =>
              (ret'.op = "Subscribe" /\ ret'.val = kInvalidSubscription)

\* C15: when the wait for the lock times out in Publish, Subscribe,
\* Unsubscribe, Set or Remove, the call returns and nothing else happens:
\* registry entries with their last-delivery ticks, the id counter and the
\* stored entries are unchanged, no callback is invoked or scheduled, and
\* Subscribe returns the invalid id 0.
C15_TimeoutHasNoEffect ==
    [][\A t \in Threads : C15_TimeoutStep(t)]_vars

\* C15 happens: a Watch has just timed out on the bus mutex, which another
\* thread still holds, on a store that holds values
C15_Witness ==
    /\ ret.op = "Subscribe"
    /\ ret.val = kInvalidSubscription
    /\ lock # NoLock
    /\ entries_ # <<>>

\* a step that returns from MessageBus::Initialize on an initialized bus
C20_BusStep ==
    (ret'.op = "Initialize" /\ initialized_) =>
        /\ ret'.val = ESP_ERR_INVALID_STATE
        /\ initialized_'
        /\ max_data_size' = max_data_size
        /\ lock' = lock
        /\ subscribers_' = subscribers_
        /\ next_id_' = next_id_
        /\ asyncQueue' = asyncQueue
        /\ stack' = stack
        /\ UNCHANGED storeVars

\* a step that returns from DataStore::Initialize on an initialized store
C20_StoreStep ==
    (ret'.op = "DataStore::Initialize" /\ store_initialized_) =>
        /\ ret'.val = ESP_ERR_INVALID_STATE
        /\ UNCHANGED storeVars
        /\ subscribers_' = subscribers_
        /\ initialized_' = initialized_
        /\ max_data_size' = max_data_size
        /\ stack' = stack

C13_Returns(t) ==
    /\ stack[t] # <<>>
    /\ Top(t).op = "pub"
    /\ Top(t).key # NoKey
    /\ stack'[t] = SubSeq(stack[t], 1, Len(stack[t]) - 1)

\* every watcher that was registered for the key when Publish was called and
\* has not been unwatched has been put on the UI queue, or the allocation for
\* its handoff has failed
C13_Scheduled(f) == f.watchers \ unsubErased \subseteq f.got \cup f.dropped

C13_WatcherGetsKey ==
    /\ \A t \in Threads : \A d \in DOMAIN stack[t] :
          (stack[t][d].op = "cb" /\ stack[t][d].key # NoKey) =>
              /\ t = UiThread
              /\ ~stack[t][d].inline
              /\ stack[t][d].msg.topic =
                    (topic_base_ + stack[t][d].key) % TopicCard
    /\ \A i \in DOMAIN asyncQueue :
          CapturedKey(asyncQueue[i].callback) # NoKey =>
              asyncQueue[i].topic =
                  (topic_base_ + CapturedKey(asyncQueue[i].callback)) % TopicCard

\* a Get made from inside a callback reads what the store holds in that step
C13_GetInCallback(t) ==
    (/\ InFrame(t, "get", "locked")
     /\ Len(stack[t]) > 1
     /\ stack[t][Len(stack[t]) - 1].op = "cb"
     /\ stack'[t] # stack[t]) =>
        IF Top(t).key \in DOMAIN entries_
              /\ Len(entries_[Top(t).key]) = Top(t).size
          THEN /\ ret'.val = BoolInt(TRUE)
               /\ out'[t] = entries_[Top(t).key]
          ELSE /\ ret'.val = BoolInt(FALSE)
               /\ out' = out

\* every Set that changes the value of a watched key and whose Publish has
\* got the bus lock schedules the watcher, allocation failures apart; the
\* watcher runs with the key, and a Get inside it reads the store as it is
C13_WatcherSeesCurrentValue ==
    /\ []C13_WatcherGetsKey
    /\ [][\A t \in Threads :
             /\ (C13_Returns(t) /\ Top(t).pc = "deliver")
                   => C13_Scheduled(Top(t))
             /\ C13_GetInCallback(t)]_vars

\* a watcher that is on the UI queue for key k comes to run with argument k
C13_QueuedWatcherRuns ==
    \A k \in Keys :
        (\E i \in DOMAIN asyncQueue : CapturedKey(asyncQueue[i].callback) = k)
          ~> (/\ InFrame(UiThread, "cb", "run")
              /\ Top(UiThread).key = k)

C21_Returns(t) ==
    /\ stack[t] # <<>>
    /\ Top(t).op = "remove"
    /\ stack'[t] = SubSeq(stack[t], 1, Len(stack[t]) - 1)

C21_InRemove(t) ==
    \/ /\ stack[t] # <<>>
       /\ Top(t).op = "remove"
       /\ stack'[t] # stack[t]
    \/ /\ Len(stack'[t]) = Len(stack[t]) + 1
       /\ stack'[t][Len(stack'[t])].op = "remove"

\* no step of Remove publishes, invokes or schedules anything, and only the
\* step under the lock touches the entries: it erases the entry of key and no
\* other
C21_RemoveStep(t) ==
    C21_InRemove(t) =>
        /\ asyncQueue' = asyncQueue
        /\ subscribers_' = subscribers_
        /\ heap' = heap
        /\ lock' = lock
        /\ \A u \in Threads \ {t} : stack'[u] = stack[u]
        /\ \A d \in DOMAIN stack'[t] :
              stack'[t][d].op \in {"pub", "cb"} =>
                  (d \in DOMAIN stack[t] /\ stack[t][d] = stack'[t][d])
        /\ IF InFrame(t, "remove", "locked")
             THEN /\ DOMAIN entries_' = DOMAIN entries_ \ {Top(t).key}
                  /\ \A k \in DOMAIN entries_' : entries_'[k] = entries_[k]
                  /\ Top(t).key \notin DOMAIN entries_ => entries_' = entries_
             ELSE entries_' = entries_

\* Remove refused on an uninitialized store changes nothing
C21_RefusedStep ==
    ret'.op = "Remove" =>
        /\ ~store_initialized_
        /\ entries_' = entries_
        /\ stack' = stack
        /\ asyncQueue' = asyncQueue

\* Contains and Get answer from the entries: true only for a key that has
\* one, and Contains under the lock says exactly whether it has one
C21_ReadStep ==
    /\ (ret'.op \in {"Contains", "Get"} /\ ret'.val = BoolInt(TRUE))
          => ret'.arg[1] \in DOMAIN entries_
    /\ \A t \in Threads :
          (InFrame(t, "contains", "locked") /\ stack'[t] # stack[t]) =>
              /\ ret'.op = "Contains"
              /\ ret'.val = BoolInt(Top(t).key \in DOMAIN entries_)
              /\ entries_' = entries_

\* an entry comes into being only in the step that applies a Set of its key
C21_OnlySetAdds ==
    \A k \in DOMAIN entries_' \ DOMAIN entries_ :
        \E t \in Threads : C12_Applies(t) /\ Top(t).key = k

C22_RegistryIdsUnique ==
    \A i \in DOMAIN subscribers_ : \A j \in DOMAIN subscribers_ :
        i # j => subscribers_[i].id # subscribers_[j].id

\* thread t holds MessageBus::mutex_
C23_HoldsRegistryLock(t) == lock # NoLock /\ lock[1] = t

\* thread t holds DataStore::mutex_
C23_HoldsStoreLock(t) == store_lock # NoLock /\ store_lock[1] = t

\* C23: no thread ever holds the Store lock and the Registry lock at the same
\* time; the call that holds a lock is the innermost call of its thread and
\* is past its wait, so a thread that holds one of the locks neither holds
\* nor waits for the other: Set has given the Store lock back when it calls
\* Publish, and Watch and Unwatch call the Registry without the Store lock.
C23_LocksNeverNested ==
    \A t \in Threads :
        /\ ~(C23_HoldsRegistryLock(t) /\ C23_HoldsStoreLock(t))
        /\ C23_HoldsRegistryLock(t) =>
              /\ lock[2] = Len(stack[t])
              /\ Top(t).op \in {"pub", "sub", "unsub"}
              /\ Top(t).pc = "locked"
        /\ C23_HoldsStoreLock(t) =>
              /\ store_lock[2] = Len(stack[t])
              /\ Top(t).op \in {"set", "get", "remove", "contains"}
              /\ Top(t).pc = "locked"

\* C23 happens: the Publish call of a Set holds the Registry lock while
\* another thread holds the Store lock
C23_Witness ==
    /\ lock # NoLock
    /\ store_lock # NoLock
    /\ lock[1] # store_lock[1]
    /\ Top(lock[1]).op = "pub"
    /\ Top(lock[1]).key # NoKey

\* the registry holds its entries in the order in which Subscribe inserted
\* them (callback numbers the successful Subscribe calls)
C24_RegistryInInsertionOrder ==
    \A i \in DOMAIN subscribers_ : \A j \in DOMAIN subscribers_ :
        i < j => subscribers_[i].callback < subscribers_[j].callback

\* the snapshot of a Publish is in insertion order, and what has been
\* invoked or scheduled (or dropped) so far is its leading part
C24_DeliveredInInsertionOrder ==
    \A t \in Threads : \A d \in DOMAIN stack[t] :
        LET f == stack[t][d] IN
        (f.op = "pub" /\ f.pc = "deliver") =>
            /\ \A i \in DOMAIN f.matches : \A j \in DOMAIN f.matches :
                  i < j => f.matches[i].callback < f.matches[j].callback
            /\ f.got \cup f.dropped =
                  {f.matches[i].callback :
                      i \in {j \in DOMAIN f.matches : j < f.idx}}

\* The tick counter does not wrap within a run (TickMod > MaxClock), so the
\* timestamps of the messages of one thread tell the order of its Publish
\* calls: what is queued for the LVGL task, and what it is running, is in
\* that order.
C24_PublishOrderKept ==
    /\ \A i \in DOMAIN asyncQueue : \A j \in DOMAIN asyncQueue :
          (i < j /\ asyncQueue[i].src = asyncQueue[j].src) =>
              asyncQueue[i].timestamp <= asyncQueue[j].timestamp
    /\ \A d \in DeferredRunning : \A i \in DOMAIN asyncQueue :
          stack[UiThread][d].src = asyncQueue[i].src =>
              stack[UiThread][d].msg.timestamp <= asyncQueue[i].timestamp

\* the queue of the LVGL task changes at its ends only: a Publish in its
\* delivery loop puts the subscriber it has come to at the tail, and the LVGL
\* task takes the oldest entry and runs its callback
C24_QueueStep ==
    asyncQueue' # asyncQueue =>
        \/ \E t \in Threads :
              /\ InFrame(t, "pub", "deliver")
              /\ Top(t).idx <= Len(Top(t).matches)
              /\ Len(asyncQueue') = Len(asyncQueue) + 1
              /\ SubSeq(asyncQueue', 1, Len(asyncQueue)) = asyncQueue
              /\ asyncQueue'[Len(asyncQueue')].callback =
                     Top(t).matches[Top(t).idx].callback
              /\ asyncQueue'[Len(asyncQueue')].timestamp = Top(t).now
        \/ /\ asyncQueue # <<>>
           /\ asyncQueue' = SubSeq(asyncQueue, 2, Len(asyncQueue))
           /\ stack[UiThread] = <<>>
           /\ Len(stack'[UiThread]) = 1
           /\ stack'[UiThread][1].op = "cb"
           /\ stack'[UiThread][1].sub = asyncQueue[1].callback
           /\ stack'[UiThread][1].msg.timestamp = asyncQueue[1].timestamp

C25_StorePublishes ==
    {<<t, d>> \in Threads \X (1..MaxStoreOps) :
        /\ d \in DOMAIN stack[t]
        /\ stack[t][d].op = "pub"
        /\ stack[t][d].key # NoKey}

\* C25 as stated: the topic of a notification is never below topic_base, and
\* no Set is delivered to a subscriber of a topic below topic_base.
C25_TopicNeverBelowBase ==
    \A p \in C25_StorePublishes :
        LET f == stack[p[1]][p[2]] IN
        /\ f.topic >= topic_base_
        /\ \A s \in f.got : issued[s].topic >= topic_base_

\* C25 (amended): the Store publishes and watches key k on topic
\* (topic_base + k) mod 2^32, and a Set is delivered to the subscribers of
\* exactly that topic; the topic is at or above topic_base exactly when
\* topic_base + k does not exceed 2^32 - 1, and for a larger k it wraps into
\* the range below topic_base.
C25_TopicIsWrappedSum ==
    /\ \A p \in C25_StorePublishes :
          LET f == stack[p[1]][p[2]] IN
          /\ f.topic = (topic_base_ + f.key) % TopicCard
          /\ f.topic >= topic_base_ <=> topic_base_ + f.key < TopicCard
          /\ \A s \in f.got \cup f.dropped : issued[s].topic = f.topic
    /\ \A s \in DOMAIN issued :
          issued[s].key # NoKey =>
              issued[s].topic = (topic_base_ + issued[s].key) % TopicCard
    /\ \A e \in Range(subscribers_) :
          issued[e.callback].topic = e.topic

\* C25 happens: a Set of a key whose topic has wrapped below topic_base has
\* been handed to the watcher of that key
C25_Witness ==
    \E p \in C25_StorePublishes :
        /\ stack[p[1]][p[2]].topic < topic_base_
        /\ stack[p[1]][p[2]].got # {}

\* no frame of thread u is part of a Set call on key
C26_NoSetInFlight(u, key) ==
    \A d \in DOMAIN stack[u] : ~SetInFlight(stack[u][d], key)

C27_DeliversFromSnapshot ==
    \A t \in Threads : \A d \in DOMAIN stack[t] :
        LET f == stack[t][d] IN
        (f.op = "pub" /\ f.pc = "deliver") =>
            /\ Chosen(f) \subseteq f.scanned
            /\ f.got \subseteq Chosen(f)
            /\ \A s \in DOMAIN issued : s \notin f.scanned => s \notin f.got
            /\ \A s \in f.dropped : issued[s].mode = "LvglAsync"
            /\ LoopEnded(f) => f.got = Chosen(f) \ f.dropped

\* no step (a Subscribe or an Unsubscribe of any thread or callback
\* included) alters the snapshot of a Publish that is delivering, and the
\* loop goes through it one entry at a time
C27_SnapshotStep ==
    \A t \in Threads : \A d \in DOMAIN stack[t] :
        (/\ stack[t][d].op = "pub"
         /\ stack[t][d].pc = "deliver"
         /\ d \in DOMAIN stack'[t]) =>
            /\ stack'[t][d].op = "pub"
            /\ stack'[t][d].pc = "deliver"
            /\ stack'[t][d].matches = stack[t][d].matches
            /\ stack'[t][d].idx \in {stack[t][d].idx, stack[t][d].idx + 1}
            /\ stack[t][d].got \subseteq stack'[t][d].got

====
